---- MODULE Spec2Model ----
(***************************************************************************)
(* Reminderoo (src/index.js): a calendar poller that schedules one timed   *)
(* job per (event, notification time) and dispatches a notification when   *)
(* the job fires.  Instants are milliseconds since the epoch of the run;   *)
(* JavaScript strings that the code takes apart are sequences of           *)
(* one-character strings.                                                  *)
(***************************************************************************)
EXTENDS Integers, Sequences, FiniteSets, Bags, TLC

VARIABLES
    pc,                 \* "load" (module body not yet run) | "running" | "crashed"
    config,             \* notificationConfig.notifications (config/notifications.yml)
    NOTIFICATION_TIMES, \* the array built at line 120
    templates,          \* the template cache of line 40: names already compiled
    now,                \* the wall clock, what new Date() returns
    lastCheck,          \* instant of the recurring job's last invocation, -1 before any
    polls,              \* scheduleReminders calls started so far
    pending,            \* scheduleReminders calls suspended at the await of line 144
    jobs,               \* node-schedule's one-shot jobs not yet fired (a bag)
    calls,              \* sendNotification invocations made so far (a bag)
    errors,             \* the errors thrown or logged so far (a bag), with their phase
    checkJob,           \* the recurring job of line 162: "none" | "armed"
    rejections          \* what the runtime does with an unhandled rejection

vars == << pc, config, NOTIFICATION_TIMES, templates, now, lastCheck, polls,
           pending, jobs, calls, errors, checkJob, rejections >>

-----------------------------------------------------------------------------
(* Bounds of the model *)

\* scheduleReminders calls (the startup run included) a behaviour may start
MaxPolls == 2
\* events one fetch returns (APP_MAX_EVENTS)
MaxEvents == 2
\* amounts 1..MaxAmount are formatted into the offset strings handed to the parser
MaxAmount == 12

-----------------------------------------------------------------------------
(* JavaScript values *)

undefined == "undefined"

\* obj.field for string-valued properties: undefined when the object has none
Get(obj, field) == IF field \in DOMAIN obj THEN obj[field] ELSE undefined

\* a JavaScript number: an integer, or NaN (also the time value of an Invalid Date)
Num(n) == [nan |-> FALSE, n |-> n]
NaN == [nan |-> TRUE, n |-> 0]

\* IEEE arithmetic as far as the code uses it: NaN is absorbing
Mul(a, b) == IF a.nan \/ b.nan THEN NaN ELSE Num(a.n * b.n)
Sub(a, b) == IF a.nan \/ b.nan THEN NaN ELSE Num(a.n - b.n)
\* a > b, false whenever an operand is NaN
Gt(a, b) == IF a.nan \/ b.nan THEN FALSE ELSE a.n > b.n

DigitChars == << "0", "1", "2", "3", "4", "5", "6", "7", "8", "9" >>
IsDigit(c) == \E i \in 1..10 : DigitChars[i] = c
DigitValue(c) == (CHOOSE i \in 1..10 : DigitChars[i] = c) - 1

\* decimal numeral of a natural number, as a YAML author writes the amount
RECURSIVE ToDecimal(_)
ToDecimal(n) ==
    IF n < 10 THEN << DigitChars[n + 1] >>
    ELSE Append(ToDecimal(n \div 10), DigitChars[(n % 10) + 1])

\* String.prototype.split(' '): the pieces between single spaces
RECURSIVE SplitFrom(_, _, _)
SplitFrom(s, i, piece) ==
    IF i > Len(s) THEN << piece >>
    ELSE IF s[i] = " " THEN << piece >> \o SplitFrom(s, i + 1, << >>)
    ELSE SplitFrom(s, i + 1, Append(piece, s[i]))
Split(s) == SplitFrom(s, 1, << >>)

\* the digits parseInt consumes from position i on, folded into a number
RECURSIVE DigitsFrom(_, _, _)
DigitsFrom(s, i, acc) ==
    IF i > Len(s) \/ ~IsDigit(s[i]) THEN acc
    ELSE DigitsFrom(s, i + 1, acc * 10 + DigitValue(s[i]))

\* parseInt(s), radix 10: optional sign, then leading digits; NaN without a digit
ParseInt(s) ==
    LET signed == Len(s) >= 1 /\ s[1] \in {"-", "+"}
        first  == IF signed THEN 2 ELSE 1
    IN  IF first > Len(s) \/ ~IsDigit(s[first]) THEN NaN
        ELSE IF signed /\ s[1] = "-" THEN Num(0 - DigitsFrom(s, first, 0))
        ELSE Num(DigitsFrom(s, first, 0))

-----------------------------------------------------------------------------
(* parseTimeToMinutes, src/index.js 102-117 *)

S_day == << "d", "a", "y" >>
S_days == << "d", "a", "y", "s" >>
S_hour == << "h", "o", "u", "r" >>
S_hours == << "h", "o", "u", "r", "s" >>
S_minute == << "m", "i", "n", "u", "t", "e" >>
S_minutes == << "m", "i", "n", "u", "t", "e", "s" >>
S_undefined == << "u", "n", "d", "e", "f", "i", "n", "e", "d" >>
UnsupportedPrefix ==
    << "U", "n", "s", "u", "p", "p", "o", "r", "t", "e", "d", " ",
       "t", "i", "m", "e", " ", "u", "n", "i", "t", ":", " " >>

MinutesPerHour == 60
HoursPerDay == 24
MsPerMinute == 60000

\* [amount, unit, ] = timeString.split(' ')
AmountOf(timeString) == Split(timeString)[1]
HasUnit(timeString) == Len(Split(timeString)) >= 2
UnitOf(timeString) == Split(timeString)[2]

Threw(message) == [threw |-> TRUE, message |-> message, value |-> NaN]
Returned(value) == [threw |-> FALSE, message |-> << >>, value |-> value]

\* faulty variant: takes the day branch for the hour factor only
ParseTimeToMinutesDayAsHour(timeString) ==
    LET amount == AmountOf(timeString)
    IN  IF ~HasUnit(timeString) THEN Threw(UnsupportedPrefix \o S_undefined)
        ELSE IF UnitOf(timeString) \in {S_day, S_days, S_hour, S_hours}
          THEN Returned(Mul(ParseInt(amount), Num(MinutesPerHour)))
        ELSE IF UnitOf(timeString) \in {S_minute, S_minutes}
          THEN Returned(ParseInt(amount))
        ELSE Threw(UnsupportedPrefix \o UnitOf(timeString))

\* the switch on unit; a missing second piece is the unit undefined, which no case
\* matches and the template literal prints as "undefined"
parseTimeToMinutes(timeString) ==
    LET amount == AmountOf(timeString)
    IN  IF ~HasUnit(timeString) THEN Threw(UnsupportedPrefix \o S_undefined)
        ELSE IF UnitOf(timeString) \in {S_day, S_days}
          THEN Returned(Mul(Mul(ParseInt(amount), Num(HoursPerDay)), Num(MinutesPerHour)))
        ELSE IF UnitOf(timeString) \in {S_hour, S_hours}
          THEN Returned(Mul(ParseInt(amount), Num(MinutesPerHour)))
        ELSE IF UnitOf(timeString) \in {S_minute, S_minutes}
          THEN Returned(ParseInt(amount))
        ELSE Threw(UnsupportedPrefix \o UnitOf(timeString))

-----------------------------------------------------------------------------
(* The inputs: configuration, template files, calendar, clock *)

\* "<amount> <unit>" as it stands in notifications.yml
Fmt(n, unit) == ToDecimal(n) \o << " " >> \o unit

S_weeks == << "w", "e", "e", "k", "s" >>
S_Day == << "D", "a", "y" >>
S_HOURS == << "H", "O", "U", "R", "S" >>
S_Minutes == << "M", "i", "n", "u", "t", "e", "s" >>
S_min == << "m", "i", "n" >>

RecognizedUnits == { S_minute, S_minutes, S_hour, S_hours, S_day, S_days }
OtherUnits == { S_weeks, S_Day, S_HOURS, S_Minutes, S_min, << >> }

Rule(time, type, template) == [time |-> time, type |-> type, template |-> template]

\* the two rules of the end-to-end scenario: a shout-out a day ahead, a chat
\* message ten minutes ahead
CfgDayAndMinutes ==
    << Rule(Fmt(1, S_day), "hibob", "hibob.hbs"),
       Rule(Fmt(10, S_minutes), "slack", "slack.hbs") >>
CfgBadUnit ==
    << Rule(Fmt(10, S_minutes), "slack", "slack.hbs"),
       Rule(Fmt(2, S_weeks), "hibob", "hibob.hbs") >>
CfgBadCase ==
    << Rule(Fmt(1, S_Day), "hibob", "hibob.hbs") >>

Configs == { CfgDayAndMinutes, CfgBadUnit, CfgBadCase }

\* config/templates: the files there, and whether Handlebars can render them
TemplateFiles == { "slack.hbs", "hibob.hbs", "broken.hbs" }
Malformed == { "broken.hbs" }

Minutes(m) == m * MsPerMinute

\* the instants the clock visits: run start, the event starts and every fire instant
Instants ==
    { Minutes(m) : m \in { 0, 10, 1440, 2870 } }

\* calendar items: a timed event, the same event moved, and an all-day event
EvStandup == [id |-> "e1", summary |-> "standup", start |-> [dateTime |-> Minutes(1450)]]
EvStandupMoved == [id |-> "e1", summary |-> "standup", start |-> [dateTime |-> Minutes(2880)]]
EvOffsite == [id |-> "e2", summary |-> "offsite", start |-> [date |-> Minutes(2880)]]
CalendarEvents == { EvStandup, EvStandupMoved, EvOffsite }

\* new Date(event.start.dateTime || event.start.date).getTime()
StartTime(event) ==
    IF "dateTime" \in DOMAIN event.start THEN Num(event.start.dateTime)
    ELSE IF "date" \in DOMAIN event.start THEN Num(event.start.date)
    ELSE NaN

\* response.data.items of calendar.events.list: at most MaxEvents items
\* (maxResults), each event once (singleEvents), ordered by start time (orderBy)
FetchResults ==
    { items \in UNION { [1..n -> CalendarEvents] : n \in 0..MaxEvents } :
        \A i \in 1..Len(items) : \A j \in 1..Len(items) :
            i < j => /\ items[i].id # items[j].id
                     /\ ~Gt(StartTime(items[i]), StartTime(items[j])) }

-----------------------------------------------------------------------------
(* Dispatch, src/index.js 43-99 *)

\* getTemplate: [threw, name, cache].  A cached name is returned as it is; otherwise
\* path.join rejects a name that is not a string, readFileSync a file that is not
\* there, and Handlebars.compile (lazy) caches whatever it has read
getTemplate(templateName, cache) ==
    IF templateName \in cache
      THEN [threw |-> FALSE, name |-> "", cache |-> cache]
    ELSE IF templateName = undefined
      THEN [threw |-> TRUE, name |-> "TypeError", cache |-> cache]
    ELSE IF templateName \notin TemplateFiles
      THEN [threw |-> TRUE, name |-> "ENOENT", cache |-> cache]
    ELSE [threw |-> FALSE, name |-> "", cache |-> cache \cup {templateName}]

\* formatEventData: the fields the template is applied to
formatEventData(event) ==
    [eventTitle |-> Get(event, "summary"), eventTime |-> StartTime(event)]

Outcome(threw, name, cache, slack, hibob, type) ==
    [threw |-> threw, name |-> name, templates |-> cache,
     slack |-> slack, hibob |-> hibob, type |-> type]

\* faulty variant: tests both types with two ifs and sends the chat message for either
SendNotificationBothChannels(event, notificationConfig, cache) ==
    LET template == getTemplate(Get(notificationConfig, "template"), cache)
        type     == Get(notificationConfig, "type")
    IN  IF template.threw
          THEN Outcome(TRUE, template.name, template.cache, 0, 0, type)
        ELSE IF Get(notificationConfig, "template") \in Malformed
          THEN Outcome(TRUE, "ParseError", template.cache, 0, 0, type)
        ELSE IF type = "slack" THEN Outcome(FALSE, "", template.cache, 1, 0, type)
        ELSE IF type = "hibob" THEN Outcome(FALSE, "", template.cache, 1, 1, type)
        ELSE Outcome(FALSE, "", template.cache, 0, 0, type)

\* sendNotification up to the delivery call: whether it threw (the promise it
\* returns is then rejected), the template cache it leaves, and how many times it
\* called sendSlackMessage and sendHiBobShoutout
sendNotification(event, notificationConfig, cache) ==
    LET template == getTemplate(Get(notificationConfig, "template"), cache)
        type     == Get(notificationConfig, "type")
    IN  IF template.threw
          THEN Outcome(TRUE, template.name, template.cache, 0, 0, type)
        ELSE IF Get(notificationConfig, "template") \in Malformed
          THEN Outcome(TRUE, "ParseError", template.cache, 0, 0, type)
        ELSE IF type = "slack" THEN Outcome(FALSE, "", template.cache, 1, 0, type)
        ELSE IF type = "hibob" THEN Outcome(FALSE, "", template.cache, 0, 1, type)
        ELSE Outcome(FALSE, "", template.cache, 0, 0, type)

-----------------------------------------------------------------------------
(* Scheduling, src/index.js 143-159 *)

\* faulty variant: takes the offset for seconds
ReminderTimeInSeconds(event, notification) ==
    Sub(StartTime(event), Mul(notification.minutes, Num(1000)))

\* reminderTime = new Date(startTime.getTime() - notification.minutes * 60000)
ReminderTime(event, notification) ==
    Sub(StartTime(event), Mul(notification.minutes, Num(MsPerMinute)))

\* the job schedule.scheduleJob(reminderTime, callback) registers; the callback
\* closes over event and notification, rule being the notification's index
Job(event, rule, notification) ==
    [event |-> event, rule |-> rule, notification |-> notification,
     fire |-> ReminderTime(event, notification).n]

\* faulty variant: the guard lets a reminder due right now through
ShouldScheduleAtOrAfter(event, notification, clock) ==
    ~ReminderTime(event, notification).nan
    /\ ReminderTime(event, notification).n >= clock

\* if (reminderTime > new Date())
ShouldSchedule(event, notification, clock) ==
    Gt(ReminderTime(event, notification), Num(clock))

\* faulty variant: the inner loop stops one notification short
RECURSIVE JobsFromSkippingLast(_, _, _, _)
JobsFromSkippingLast(events, times, clock, k) ==
    IF Len(times) = 0 \/ k > Len(events) * Len(times) THEN EmptyBag
    ELSE LET i == ((k - 1) \div Len(times)) + 1
             j == ((k - 1) % Len(times)) + 1
             rest == JobsFromSkippingLast(events, times, clock, k + 1)
         IN  IF j < Len(times) /\ ShouldSchedule(events[i], times[j], clock)
               THEN SetToBag({ Job(events[i], j, times[j]) }) (+) rest
             ELSE rest

\* the jobs the two nested forEach loops register, from pair k on, as a bag;
\* pair k is event (k-1) \div R + 1 with notification (k-1) % R + 1
RECURSIVE JobsFrom(_, _, _, _)
JobsFrom(events, times, clock, k) ==
    IF Len(times) = 0 \/ k > Len(events) * Len(times) THEN EmptyBag
    ELSE LET i == ((k - 1) \div Len(times)) + 1
             j == ((k - 1) % Len(times)) + 1
             rest == JobsFrom(events, times, clock, k + 1)
         IN  IF ShouldSchedule(events[i], times[j], clock)
               THEN SetToBag({ Job(events[i], j, times[j]) }) (+) rest
             ELSE rest

\* faulty variant: the cycle clears the schedule and registers its own jobs only
ScheduleRemindersReplacing(events) ==
    jobs' = JobsFrom(events, NOTIFICATION_TIMES, now, 1)

\* the body of scheduleReminders after the await
scheduleReminders(events) ==
    jobs' = jobs (+) JobsFrom(events, NOTIFICATION_TIMES, now, 1)

-----------------------------------------------------------------------------
(* The process *)

Triggers == { "startup", "timer" }
NoneSuspended == [t \in Triggers |-> 0]

Failure(phase, name, message) == [phase |-> phase, name |-> name, message |-> message]

\* lines 120-123: the map over the configured notifications
Parsed(notifications) ==
    [i \in 1..Len(notifications) |-> parseTimeToMinutes(notifications[i].time)]
NotificationTimes(notifications) ==
    [i \in 1..Len(notifications) |->
        [minutes |-> Parsed(notifications)[i].value,
         originalTime |-> notifications[i].time]]
FirstThrow(notifications) ==
    CHOOSE i \in 1..Len(notifications) :
        /\ Parsed(notifications)[i].threw
        /\ \A h \in 1..(i - 1) : ~Parsed(notifications)[h].threw

\* faulty variant: catches the parse error and goes on with the entries before it
StartupSkippingBadRule ==
    /\ pc = "load"
    /\ LET good == IF \E i \in 1..Len(config) : Parsed(config)[i].threw
                     THEN SubSeq(config, 1, FirstThrow(config) - 1)
                   ELSE config
       IN  /\ NOTIFICATION_TIMES' = NotificationTimes(good)
           /\ errors' = IF good = config THEN errors
                        ELSE errors (+) SetToBag({ Failure("startup", "Error",
                                 Parsed(config)[FirstThrow(config)].message) })
    /\ pc' = "running"
    /\ checkJob' = "armed"
    /\ polls' = 1
    /\ pending' = [NoneSuspended EXCEPT !["startup"] = 1]
    /\ UNCHANGED << config, templates, now, lastCheck, jobs, calls, rejections >>

\* the module body, lines 1-167: build NOTIFICATION_TIMES (an uncaught throw ends
\* the process there), register the recurring job, make the initial run, which
\* runs up to the await of the fetch
Startup ==
    /\ pc = "load"
    /\ IF \E i \in 1..Len(config) : Parsed(config)[i].threw
         THEN /\ pc' = "crashed"
              /\ errors' = errors (+) SetToBag({ Failure("startup", "Error",
                                Parsed(config)[FirstThrow(config)].message) })
              /\ UNCHANGED << NOTIFICATION_TIMES, checkJob, polls, pending >>
         ELSE /\ pc' = "running"
              /\ checkJob' = "armed"
              /\ NOTIFICATION_TIMES' = NotificationTimes(config)
              /\ polls' = 1
              /\ pending' = [NoneSuspended EXCEPT !["startup"] = 1]
              /\ UNCHANGED errors
    /\ UNCHANGED << config, templates, now, lastCheck, jobs, calls, rejections >>

\* the clock moves on to the next instant
Tick ==
    /\ pc = "running"
    /\ \E t \in Instants :
        /\ t > now
        /\ \A u \in Instants : u > now => t <= u
        /\ now' = t
    /\ UNCHANGED << pc, config, NOTIFICATION_TIMES, templates, lastCheck, polls,
                    pending, jobs, calls, errors, checkJob, rejections >>

\* line 162: the recurring job invokes scheduleReminders, which runs up to the
\* await of the fetch; the cron rule is an input, so any instant may be one of
\* its instants, each at most once
CheckTimerFire ==
    /\ pc = "running"
    /\ checkJob = "armed"
    /\ now > lastCheck
    /\ polls < MaxPolls
    /\ lastCheck' = now
    /\ polls' = polls + 1
    /\ pending' = [pending EXCEPT !["timer"] = @ + 1]
    /\ UNCHANGED << pc, config, NOTIFICATION_TIMES, templates, now, jobs, calls,
                    errors, checkJob, rejections >>

\* faulty variant: rethrows from the catch of getUpcomingEvents: the cycle's promise is
\* rejected with nobody awaiting it
FetchFailsRethrowing ==
    /\ pc = "running"
    /\ \E t \in Triggers :
        /\ pending[t] > 0
        /\ pending' = [pending EXCEPT ![t] = @ - 1]
    /\ errors' = errors (+) SetToBag({ Failure("poll", "FetchError", << >>) })
    /\ pc' = "crashed"
    /\ UNCHANGED << jobs, config, NOTIFICATION_TIMES, templates, now, lastCheck, polls,
                    calls, checkJob, rejections >>

\* lines 136-139 then 146-158: calendar.events.list rejects, the catch logs and
\* returns [], and the suspended cycle resumes with no events
FetchFails ==
    /\ pc = "running"
    /\ \E t \in Triggers :
        /\ pending[t] > 0
        /\ pending' = [pending EXCEPT ![t] = @ - 1]
    /\ errors' = errors (+) SetToBag({ Failure("poll", "FetchError", << >>) })
    /\ scheduleReminders(<< >>)
    /\ UNCHANGED << pc, config, NOTIFICATION_TIMES, templates, now, lastCheck, polls,
                    calls, checkJob, rejections >>

\* lines 135 then 146-158: the fetch resolves and the suspended cycle resumes
FetchReturns ==
    /\ pc = "running"
    /\ \E t \in Triggers :
        /\ pending[t] > 0
        /\ pending' = [pending EXCEPT ![t] = @ - 1]
    /\ \E items \in FetchResults : scheduleReminders(items)
    /\ UNCHANGED << pc, config, NOTIFICATION_TIMES, templates, now, lastCheck, polls,
                    calls, errors, checkJob, rejections >>

\* what is recorded of one sendNotification invocation
Call(job, out, delivered) ==
    [event |-> job.event, rule |-> job.rule, notification |-> job.notification,
     threw |-> out.threw, slack |-> out.slack, hibob |-> out.hibob,
     delivered |-> delivered /\ out.slack + out.hibob > 0]

\* faulty variant: the senders have no try/catch, so a failed delivery rejects the
\* promise of sendNotification like a template failure does
JobFireSenderRethrows ==
    /\ pc = "running"
    /\ \E job \in BagToSet(jobs) :
        /\ job.fire <= now
        /\ jobs' = jobs (-) SetToBag({ job })
        /\ LET out == sendNotification(job.event, job.notification, templates)
           IN  /\ templates' = out.templates
               /\ \E delivered \in BOOLEAN :
                    LET failed == out.slack + out.hibob > 0 /\ ~delivered
                    IN  /\ calls' = calls (+) SetToBag({
                              [Call(job, out, delivered) EXCEPT !.threw = @ \/ failed] })
                        /\ errors' =
                             IF out.threw
                               THEN errors (+) SetToBag({ Failure("fire", out.name, << >>) })
                             ELSE IF failed
                               THEN errors (+) SetToBag({ Failure("fire", "DeliveryError", << >>) })
                             ELSE errors
                        /\ pc' = IF (out.threw \/ failed) /\ rejections = "throw"
                                   THEN "crashed" ELSE pc
    /\ UNCHANGED << config, NOTIFICATION_TIMES, now, lastCheck, polls, pending,
                    checkJob, rejections >>

\* lines 153-155: a job whose instant has come fires once and is gone; its callback
\* calls sendNotification without awaiting or catching it.  The sender, if one is
\* reached, catches its own failure (lines 84-86, 96-98); a throw before that
\* leaves a rejected promise nobody handles, which the runtime either only
\* reports or turns into an uncaught exception that ends the process
JobFire ==
    /\ pc = "running"
    /\ \E job \in BagToSet(jobs) :
        /\ job.fire <= now
        /\ jobs' = jobs (-) SetToBag({ job })
        /\ LET out == sendNotification(job.event, job.notification, templates)
           IN  /\ templates' = out.templates
               /\ \E delivered \in BOOLEAN :
                    /\ calls' = calls (+) SetToBag({ Call(job, out, delivered) })
                    /\ errors' =
                         IF out.threw
                           THEN errors (+) SetToBag({ Failure("fire", out.name, << >>) })
                         ELSE IF out.slack + out.hibob > 0 /\ ~delivered
                           THEN errors (+) SetToBag({ Failure("fire", "DeliveryError", << >>) })
                         ELSE errors
               /\ pc' = IF out.threw /\ rejections = "throw" THEN "crashed" ELSE pc
    /\ UNCHANGED << config, NOTIFICATION_TIMES, now, lastCheck, polls, pending,
                    checkJob, rejections >>

Init ==
    /\ pc = "load"
    /\ config \in Configs
    /\ NOTIFICATION_TIMES = << >>
    /\ templates = {}
    /\ now = 0
    /\ lastCheck = -1
    /\ polls = 0
    /\ pending = NoneSuspended
    /\ jobs = EmptyBag
    /\ calls = EmptyBag
    /\ errors = EmptyBag
    /\ checkJob = "none"
    /\ rejections \in { "warn", "throw" }

Next ==
    \/ Startup
    \/ Tick
    \/ CheckTimerFire
    \/ FetchReturns
    \/ FetchFails
    \/ JobFire

Spec == Init /\ [][Next]_vars

-----------------------------------------------------------------------------
(* parseTimeToMinutes on its own: one configured rule per run, its offset string
   drawn from every amount and unit; the only step is the module body *)

AllUnits == RecognizedUnits \cup OtherUnits

\* amounts that are no positive integer: zero, negative, not a number, empty
OddAmounts == { << "0" >>, << "-", "5" >>, << "a", "b", "c" >>, << >> }

ParseInputs ==
    { Fmt(n, u) : n \in 1..MaxAmount, u \in AllUnits }
    \cup { ToDecimal(n) : n \in 1..MaxAmount }
    \cup { a \o << " " >> \o u : a \in OddAmounts, u \in RecognizedUnits }

InitParse ==
    /\ pc = "load"
    /\ config \in { << Rule(time, "slack", "slack.hbs") >> : time \in ParseInputs }
    /\ NOTIFICATION_TIMES = << >>
    /\ templates = {}
    /\ now = 0
    /\ lastCheck = -1
    /\ polls = 0
    /\ pending = NoneSuspended
    /\ jobs = EmptyBag
    /\ calls = EmptyBag
    /\ errors = EmptyBag
    /\ checkJob = "none"
    /\ rejections = "warn"

NextParse == Startup

SpecParse == InitParse /\ [][NextParse]_vars

-----------------------------------------------------------------------------
(* sendNotification on its own: two due jobs whose callbacks hold an event and a
   notification object drawn from every type and template; the only step is a
   job firing *)

DispatchTypes == { "slack", "hibob", "email" }
DispatchTemplates == { "slack.hbs", "hibob.hbs", "broken.hbs", "missing.hbs" }

DispatchConfigs ==
    { [type |-> ty, template |-> te] : ty \in DispatchTypes, te \in DispatchTemplates }
    \cup { [template |-> te] : te \in DispatchTemplates }
    \cup { [type |-> ty] : ty \in DispatchTypes }

InitDispatch ==
    /\ pc = "running"
    /\ config = << >>
    /\ NOTIFICATION_TIMES = << >>
    /\ templates = {}
    /\ now = 0
    /\ lastCheck = -1
    /\ polls = 1
    /\ pending = NoneSuspended
    /\ \E e \in CalendarEvents : \E c1 \in DispatchConfigs : \E c2 \in DispatchConfigs :
         jobs = SetToBag({ [event |-> e, rule |-> 1, notification |-> c1, fire |-> 0],
                           [event |-> e, rule |-> 2, notification |-> c2, fire |-> 0] })
    /\ calls = EmptyBag
    /\ errors = EmptyBag
    /\ checkJob = "armed"
    /\ rejections \in { "warn", "throw" }

NextDispatch == JobFire

SpecDispatch == InitDispatch /\ [][NextDispatch]_vars

-----------------------------------------------------------------------------
(* Properties *)

EventIds == { e.id : e \in CalendarEvents }
RuleIndexes == 1..Len(NOTIFICATION_TIMES)

\* the jobs of bag b that belong to the pair (event identifier, rule), as a bag
OfPair(b, id, rule) ==
    LET mine == { j \in BagToSet(b) : j.event.id = id /\ j.rule = rule }
    IN  [j \in mine |-> b[j]]
LiveJobs(id, rule) == BagCardinality(OfPair(jobs, id, rule))

\* the sendNotification invocations made for an event as fetched and a rule
Invocations(event, rule) ==
    LET mine == { c \in BagToSet(calls) : c.event = event /\ c.rule = rule }
    IN  BagCardinality([c \in mine |-> calls[c]])

\* C1: in every reachable state there is at most one live job per
\* (event identifier, notification rule) pair
C1_AtMostOneLiveJobPerPair ==
    \A id \in EventIds : \A rule \in RuleIndexes : LiveJobs(id, rule) <= 1

\* C2: sendNotification is invoked at most once for an unchanged event and a rule,
\* however many poll cycles found the event
C2_DispatchedAtMostOnce ==
    \A event \in CalendarEvents : \A rule \in RuleIndexes :
        Invocations(event, rule) <= 1

\* C3: a step that resumes a poll cycle while a pair has a pending job leaves that
\* pair's jobs as they were: same timer, same fire instant, same event snapshot
C3_ScheduleExistingKeyIsNoOp ==
    [][ \A id \in EventIds : \A rule \in RuleIndexes :
          (LiveJobs(id, rule) >= 1 /\ pending' # pending /\ polls' = polls)
             => OfPair(jobs', id, rule) = OfPair(jobs, id, rule) ]_vars

\* the instant a configured offset string stands for, computed from the string's
\* amount and unit rather than by the parser
MinutesPerUnit(u) ==
    IF u \in { S_minute, S_minutes } THEN 1
    ELSE IF u \in { S_hour, S_hours } THEN 60
    ELSE 1440
\* the start instant of an event as the calendar gives it
StartMs(event) ==
    IF "dateTime" \in DOMAIN event.start THEN event.start.dateTime ELSE event.start.date

\* C4: a job is added only with a fire instant strictly later than the clock of
\* the step that adds it; a pair due now or earlier gets no job
C4_CreatedOnlyIfStrictlyFuture ==
    [][ /\ \A j \in BagToSet(jobs') :
             (IF j \in BagToSet(jobs) THEN jobs'[j] > jobs[j] ELSE TRUE)
                => j.fire > now
        /\ \A c \in BagToSet(calls') :
             (IF c \in BagToSet(calls) THEN calls'[c] > calls[c] ELSE TRUE)
                => \E j \in BagToSet(jobs) :
                      /\ j.event = c.event /\ j.rule = c.rule
                      /\ jobs' = jobs (-) SetToBag({ j }) ]_vars

\* C4 witness: a cycle resumed at minute 10 kept the standup's 10-minute reminder
\* and dropped its 1-day reminder, due at that very minute; nothing has fired
C4_Witness ==
    /\ now = Minutes(10)
    /\ calls = EmptyBag
    /\ LiveJobs("e1", 2) = 1
    /\ LiveJobs("e1", 1) = 0
    /\ \E j \in BagToSet(jobs) : j.event = EvStandup

\* C5: every live job's fire instant is its event's start minus the rule's offset,
\* amount x minutes per unit x 60 seconds
C5_FireInstantIsStartMinusOffset ==
    \A j \in BagToSet(jobs) :
        \A n \in 1..MaxAmount : \A u \in RecognizedUnits :
            (j.rule \in 1..Len(config) /\ config[j.rule].time = Fmt(n, u))
               => j.fire = StartMs(j.event) - n * MinutesPerUnit(u) * 60 * 1000

\* C5 witness: the all-day offsite, two days out, has its 1-day reminder pending
\* at one day out
C5_Witness ==
    \E j \in BagToSet(jobs) :
        /\ j.event = EvOffsite
        /\ config[j.rule].time = Fmt(1, S_day)
        /\ j.fire = Minutes(1440)

\* deliveries attempted so far through each sender
ShoutoutsSent ==
    LET mine == { c \in BagToSet(calls) : c.hibob = 1 }
    IN  BagCardinality([c \in mine |-> calls[c]])
ChatsSent ==
    LET mine == { c \in BagToSet(calls) : c.slack = 1 }
    IN  BagCardinality([c \in mine |-> calls[c]])

\* the end-to-end scenario: the two rules "1 day"/shout-out and "10 minutes"/chat,
\* one cycle completed, and everything scheduled or fired belongs to event e,
\* which starts two days after the run began
EndToEnd(e) ==
    /\ config = CfgDayAndMinutes
    /\ StartMs(e) = Minutes(2880)
    /\ polls = 1
    /\ pending = NoneSuspended
    /\ BagCardinality(jobs) + BagCardinality(calls) > 0
    /\ \A j \in BagToSet(jobs) : j.event = e
    /\ \A c \in BagToSet(calls) : c.event = e

\* C6: in the end-to-end scenario the cycle leaves exactly two live jobs, due at
\* one day and at two days minus ten minutes; once the clock has reached the first
\* of them and its job has fired, exactly one shout-out and no chat message went out
C6_EndToEndScenario ==
    \A e \in CalendarEvents :
        EndToEnd(e) =>
            /\ now = 0 =>
                 /\ BagCardinality(jobs) = 2
                 /\ { j.fire : j \in BagToSet(jobs) } = { Minutes(1440), Minutes(2870) }
            /\ (now = Minutes(1440) /\ BagCardinality(calls) = 1) =>
                 /\ ShoutoutsSent = 1
                 /\ ChatsSent = 0

Renderable(name) == name \in TemplateFiles \ Malformed

\* C7: sendNotification calls the sender its argument's type names and no other:
\* "slack" only the chat sender, "hibob" only the shout-out sender, any other type
\* neither, and then it raises nothing; a sender is reached once the template rendered
C7_RoutesByType ==
    \A c \in BagToSet(calls) :
        LET type == Get(c.notification, "type")
            rendered == Renderable(Get(c.notification, "template"))
        IN  /\ type = "slack" => c.hibob = 0 /\ (rendered => c.slack = 1 /\ ~c.threw)
            /\ type = "hibob" => c.slack = 0 /\ (rendered => c.hibob = 1 /\ ~c.threw)
            /\ type \notin { "slack", "hibob" } =>
                  c.slack = 0 /\ c.hibob = 0 /\ (rendered => ~c.threw)

\* C7 witness: one job fired with a shout-out rule and reached the shout-out
\* sender alone, the other fired with a type no channel has and reached neither
C7_Witness ==
    /\ \E c \in BagToSet(calls) :
         Get(c.notification, "type") = "hibob" /\ c.hibob = 1 /\ c.slack = 0
    /\ \E c \in BagToSet(calls) :
         /\ Get(c.notification, "type") = "email"
         /\ Get(c.notification, "template") = "slack.hbs"
         /\ ~c.threw /\ c.hibob = 0 /\ c.slack = 0

\* C8: "<amount> <unit>" parses to amount x 1, x 60 or x 1440 for the six units;
\* any other unit, a differently cased or a missing one included, ends the module
\* body with an error whose message names the unit
C8_ParseTimeToMinutes ==
    pc # "load" =>
        /\ \A n \in 1..MaxAmount : \A u \in AllUnits :
             config[1].time = Fmt(n, u) =>
                IF u \in RecognizedUnits
                  THEN /\ pc = "running"
                       /\ NOTIFICATION_TIMES[1].minutes = Num(n * MinutesPerUnit(u))
                       /\ errors = EmptyBag
                  ELSE /\ pc = "crashed"
                       /\ errors = SetToBag({ Failure("startup", "Error",
                                                 UnsupportedPrefix \o u) })
        /\ \A n \in 1..MaxAmount :
             config[1].time = ToDecimal(n) =>
                /\ pc = "crashed"
                /\ errors = SetToBag({ Failure("startup", "Error",
                                          UnsupportedPrefix \o S_undefined) })

\* C8 witness: "4 hours" has been parsed to 240
C8_Witness ==
    /\ pc = "running"
    /\ config[1].time = Fmt(4, S_hours)
    /\ NOTIFICATION_TIMES[1].minutes = Num(240)

HasUnrecognizedUnit ==
    \E i \in 1..Len(config) :
        \/ ~HasUnit(config[i].time)
        \/ UnitOf(config[i].time) \notin RecognizedUnits

\* C9: with an unrecognized unit in the configuration the process never gets past
\* the module body: no cycle starts, the recurring job is never armed, nothing is
\* scheduled or dispatched; and the offset error is only ever thrown at startup
C9_BadUnitHaltsStartup ==
    /\ HasUnrecognizedUnit =>
         /\ pc \in { "load", "crashed" }
         /\ polls = 0
         /\ pending = NoneSuspended
         /\ checkJob = "none"
         /\ jobs = EmptyBag
         /\ calls = EmptyBag
    /\ \A e \in BagToSet(errors) :
         e.name = "Error" => e.phase = "startup" /\ pc = "crashed" /\ polls = 0

\* C9 witness: the configuration whose second rule reads "2 weeks" has ended the
\* process with the error that names weeks
C9_Witness ==
    /\ config = CfgBadUnit
    /\ pc = "crashed"
    /\ errors = SetToBag({ Failure("startup", "Error", UnsupportedPrefix \o S_weeks) })

FetchErrors(b) == CopiesIn(Failure("poll", "FetchError", << >>), b)
Suspended(p) == p["startup"] + p["timer"]

\* C10: the step in which a fetch failure is logged ends that cycle with the live
\* jobs as they were, the process running and the recurring job still armed
C10_FetchFailureIsEmptyCycle ==
    [][ FetchErrors(errors') > FetchErrors(errors) =>
          /\ jobs' = jobs
          /\ Suspended(pending') = Suspended(pending) - 1
          /\ pc' = "running"
          /\ checkJob' = "armed" ]_vars

\* C10 witness: the startup cycle's fetch failed, nothing is scheduled, and the
\* recurring job has started the next cycle, which is waiting for its fetch
C10_Witness ==
    /\ FetchErrors(errors) = 1
    /\ jobs = EmptyBag
    /\ pc = "running"
    /\ pending = [NoneSuspended EXCEPT !["timer"] = 1]
    /\ polls = 2
    /\ lastCheck = Minutes(10)

\* the sendNotification invocations a step adds
Added(before, after) ==
    { c \in BagToSet(after) : CopiesIn(c, after) > CopiesIn(c, before) }
DeliveryFailed(c) == c.slack + c.hibob > 0 /\ ~c.delivered

\* C11: a step in which a sender fails ends inside the dispatch: the promise of
\* sendNotification is not rejected, the process goes on, the fired job is gone and
\* not scheduled again, and every other job stays live to fire at its own instant
C11_DeliveryFailureIsContained ==
    [][ \A c \in Added(calls, calls') :
          DeliveryFailed(c) =>
             /\ ~c.threw
             /\ pc' = "running"
             /\ BagCardinality(jobs') = BagCardinality(jobs) - 1
             /\ \A j \in BagToSet(jobs) :
                  CopiesIn(j, jobs') >=
                     (IF j.event = c.event /\ j.rule = c.rule /\ j.notification = c.notification
                        THEN CopiesIn(j, jobs) - 1 ELSE CopiesIn(j, jobs)) ]_vars

\* C11 witness: of two jobs, one reached the chat sender, which failed, and the
\* other reached the shout-out sender, which delivered
C11_Witness ==
    /\ pc = "running"
    /\ \E c \in BagToSet(calls) : c.slack = 1 /\ DeliveryFailed(c) /\ ~c.threw
    /\ \E c \in BagToSet(calls) : c.hibob = 1 /\ c.delivered
    /\ FetchErrors(errors) = 0
    /\ CopiesIn(Failure("fire", "DeliveryError", << >>), errors) = 1

\* C12: a step in which the template lookup or the rendering throws skips that one
\* dispatch and nothing else: no sender is called, the process goes on
C12_TemplateFailureIsContained ==
    [][ \A c \in Added(calls, calls') :
          c.threw => c.slack = 0 /\ c.hibob = 0 /\ pc' = "running" ]_vars

BothSuspendedOneResumed == [NoneSuspended EXCEPT !["startup"] = 1]

\* C13: when the recurring run has finished while the startup run was still
\* waiting for its fetch, the step that finishes the startup run leaves every
\* pair with at most one live job
C13_OverlappingCyclesDoNotDuplicate ==
    [][ (polls = 2 /\ pending = BothSuspendedOneResumed /\ pending' = NoneSuspended)
          => \A id \in EventIds : \A rule \in RuleIndexes :
                BagCardinality(OfPair(jobs', id, rule)) <= 1 ]_vars

\* C14: a job fires no earlier than its instant, runs its callback once and is
\* removed by that; and no job is left live in a process that has ended, where it
\* could never fire
C14_OneShotJobsFire ==
    [][ /\ \A c \in Added(calls, calls') :
             \E j \in BagToSet(jobs) :
                /\ j.event = c.event /\ j.rule = c.rule
                /\ j.fire <= now
                /\ BagCardinality(calls') = BagCardinality(calls) + 1
                /\ jobs' = jobs (-) SetToBag({ j })
        /\ pc' = "crashed" => jobs' = EmptyBag ]_vars

\* C15: every live job carries the configured rule of its key, channel type and
\* template identifier included
C15_JobCarriesConfiguredRule ==
    \A j \in BagToSet(jobs) :
        /\ j.rule \in 1..Len(config)
        /\ Get(j.notification, "type") = config[j.rule].type
        /\ Get(j.notification, "template") = config[j.rule].template

\* C17: while a pair has a live job, a resumed cycle that finds the event with
\* another start time adds no job for that pair, and leaves the stale job as it is
C17_NoReconciliationOnMove ==
    [][ \A j \in BagToSet(jobs) : \A k \in BagToSet(jobs') :
          (/\ k.event.id = j.event.id /\ k.rule = j.rule
           /\ StartMs(k.event) # StartMs(j.event)
           /\ pending' # pending /\ polls' = polls)
             => /\ CopiesIn(k, jobs') = CopiesIn(k, jobs)
                /\ CopiesIn(j, jobs') = CopiesIn(j, jobs) ]_vars

\* C18: every offset the module body produces from a rule with a recognized unit
\* is an integer number of minutes greater than 0
C18_MinutesArePositive ==
    pc = "running" =>
        \A i \in 1..Len(NOTIFICATION_TIMES) :
            /\ ~NOTIFICATION_TIMES[i].minutes.nan
            /\ NOTIFICATION_TIMES[i].minutes.n > 0

\* C16: a job's count in the live set goes down only by that job firing: by one,
\* at or after its instant, with its dispatch recorded and every other job kept
C16_JobsLeaveOnlyByFiring ==
    [][ \A j \in BagToSet(jobs) :
          CopiesIn(j, jobs') < CopiesIn(j, jobs) =>
             /\ CopiesIn(j, jobs') = CopiesIn(j, jobs) - 1
             /\ BagCardinality(jobs') = BagCardinality(jobs) - 1
             /\ j.fire <= now
             /\ \E c \in Added(calls, calls') : c.event = j.event /\ c.rule = j.rule ]_vars

\* C16 witness: the startup run scheduled the standup's two jobs at minute 0; the
\* recurring run started at minute 10, its fetch failed, and both jobs are still
\* there, unfired
C16_Witness ==
    /\ polls = 2
    /\ pending = NoneSuspended
    /\ lastCheck = Minutes(10)
    /\ FetchErrors(errors) = 1
    /\ calls = EmptyBag
    /\ BagCardinality(jobs) = 2
    /\ \E j \in BagToSet(jobs) : j.event = EvStandup /\ j.rule = 1 /\ j.fire = Minutes(10)
    /\ \E j \in BagToSet(jobs) : j.event = EvStandup /\ j.rule = 2

\* the minutes a configured offset string stands for, from its amount and unit
ConfiguredMinutes(rule) ==
    LET p == CHOOSE q \in (1..MaxAmount) \X RecognizedUnits :
                 config[rule].time = Fmt(q[1], q[2])
    IN  p[1] * MinutesPerUnit(p[2])
\* the (event, rule) pairs of a fetched list that are due strictly after clock
DuePairs(items, clock) ==
    { p \in { items[i] : i \in 1..Len(items) } \X (1..Len(config)) :
        StartMs(p[1]) - ConfiguredMinutes(p[2]) * 60 * 1000 > clock }

====
